---------------------------- MODULE Spec2Model ----------------------------
(***************************************************************************)
(* A model of diesel-factories (src/diesel-factories/src/lib.rs).          *)
(*                                                                         *)
(* Two parts share this module:                                            *)
(*   - the sequence generator: the process-wide SEQUENCE_COUNTER and the   *)
(*     steps of sequence(f) run by several threads (SpecSequence);         *)
(*   - association resolution: Association::insert_returning_id and the    *)
(*     insert of factories whose associations it resolves, run by callers  *)
(*     against one datastore (SpecInsert).                                 *)
(***************************************************************************)
EXTENDS Integers, Sequences, FiniteSets

VARIABLES
    SEQUENCE_COUNTER, \* the AtomicUsize of lib.rs:460
    pc,               \* thread -> position inside sequence(f)
    count,            \* thread -> the local `count` of lib.rs:479
    own,              \* thread -> value its own fetch_add produced (old + 1)
    passed,           \* the calls f(count) made so far, in order
    overlapped,       \* whether two calls of sequence ever ran at the same time
    rows,             \* the datastore: every persisted row, in insertion order
    stack,            \* caller -> the frames of its running insert call
    inserted,         \* caller -> indices in rows inserted by its running call
    startLen,         \* caller -> Len(rows) when its running call began
    failDepth,        \* caller -> stack depth where the primitive failed (0: none)
    called,           \* caller -> the factory its running or last call was given
    built,            \* caller -> the factory it has constructed and not yet inserted
    history           \* the finished top-level insert calls, in order

seqVars == <<SEQUENCE_COUNTER, pc, count, own, passed, overlapped>>
dbVars == <<rows, stack, inserted, startLen, failDepth, called, built, history>>
vars == <<SEQUENCE_COUNTER, pc, count, own, passed, overlapped,
          rows, stack, inserted, startLen, failDepth, called, built, history>>

(***************************************************************************)
(* Bounds of the model.                                                    *)
(***************************************************************************)
NumThreads == 3
MaxSeqCalls == 4
NumCallers == 2
MaxCalls == 2
MaxFailures == 1

Threads == 1..NumThreads
Callers == 1..NumCallers

(***************************************************************************)
(* The sequence generator, lib.rs:459-481.                                 *)
(* usize wrap-around needs 2^64 calls and lies outside every bound here.   *)
(***************************************************************************)

\* AtomicUsize::new(0)
CounterInit == 0

\* A read-modify-write built from the thread's last read instead of the
\* atomic instruction: count + val.
fetch_add_racy(t, val) == count[t] + val

\* SEQUENCE_COUNTER.fetch_add(val, SeqCst): the new value of the counter.
fetch_add(t, val) == SEQUENCE_COUNTER + val

\* The value fetch_add itself returns (the previous one) used as the count.
load_prev(t) == {SEQUENCE_COUNTER - 1}

\* A read that is not ordered after the thread's own increment (a cached or
\* non-atomic copy of the counter): any value the counter ever had.
load_stale(t) == CounterInit..SEQUENCE_COUNTER

\* SEQUENCE_COUNTER.load(Relaxed): the values the load may return.  The
\* load is sequenced after the thread's own fetch_add, so coherence of the
\* one atomic location lets it read that write or any later one in the
\* modification order, up to the latest.
load(t) == own[t]..SEQUENCE_COUNTER

\* Number of calls of sequence begun so far.
SeqStarted == Len(passed) + Cardinality({t \in Threads : pc[t] # "idle"})

\* lib.rs:478 -- entry of sequence(f) and its atomic increment.
FetchAdd(t) ==
    /\ pc[t] = "idle"
    /\ SeqStarted < MaxSeqCalls
    /\ SEQUENCE_COUNTER' = fetch_add(t, 1)
    /\ own' = [own EXCEPT ![t] = fetch_add(t, 1)]
    /\ pc' = [pc EXCEPT ![t] = "fetched"]
    /\ overlapped' = (overlapped \/ \E u \in Threads \ {t} : pc[u] # "idle")
    /\ UNCHANGED <<count, passed>>
    /\ UNCHANGED dbVars

\* lib.rs:479 -- let count = SEQUENCE_COUNTER.load(..)
Load(t) ==
    /\ pc[t] = "fetched"
    /\ \E v \in load(t) : count' = [count EXCEPT ![t] = v]
    /\ pc' = [pc EXCEPT ![t] = "loaded"]
    /\ UNCHANGED <<SEQUENCE_COUNTER, own, passed, overlapped>>
    /\ UNCHANGED dbVars

\* lib.rs:480 -- f(count), and the return of sequence
ApplyF(t) ==
    /\ pc[t] = "loaded"
    /\ passed' = Append(passed, [thread |-> t, n |-> count[t], own |-> own[t]])
    /\ pc' = [pc EXCEPT ![t] = "idle"]
    /\ UNCHANGED <<SEQUENCE_COUNTER, count, own, overlapped>>
    /\ UNCHANGED dbVars

(***************************************************************************)
(* Factories, associations and persisted models.                           *)
(* The schema and the factories are those of the crate documentation:      *)
(* countries(id, name), cities(id, name, country_id), and users with an    *)
(* optional home city.  A factory value is its plain field and its         *)
(* association; a model is a persisted row.                                *)
(***************************************************************************)
NoId == 0

NoRecord == [type |-> "None", id |-> NoId, name |-> "", fk |-> NoId]

\* No factory: a caller that has not been given one yet.
NoFactory == [type |-> "None", name |-> "", assoc |-> [tag |-> "None"]]

\* Association::Model(&model), lib.rs:385 and new_model, lib.rs:401-403
AssocModel(model) == [tag |-> "Model", model |-> model]

\* Association::Factory(factory), lib.rs:390 and new_factory, lib.rs:406-408
AssocFactory(factory) == [tag |-> "Factory", factory |-> factory]

\* Option::<Association>::None of an optional association, lib.rs:335-338
AssocNone == [tag |-> "None"]

CountryFactory(name) == [type |-> "Country", name |-> name, assoc |-> AssocNone]

CityFactory(name, country) == [type |-> "City", name |-> name, assoc |-> country]

UserFactory(name, home_city) == [type |-> "User", name |-> name, assoc |-> home_city]

\* impl Default for CountryFactory, lib.rs:90-96
CountryFactoryDefault == CountryFactory("Denmark")

\* impl Default for Association, lib.rs:393-397, at Factory = CountryFactory
AssociationDefaultCountry == AssocFactory(CountryFactoryDefault)

\* impl Default for CityFactory, lib.rs:59-70
CityFactoryDefault == CityFactory("Copenhagen", AssociationDefaultCountry)

\* impl Default for Association, lib.rs:393-397, at Factory = CityFactory
AssociationDefaultCity == AssocFactory(CityFactoryDefault)

\* impl Default for UserFactory, lib.rs:331-341
UserFactoryDefault == UserFactory("Bob", AssocNone)

\* The rows of one table, as a set of indices of rows.
TableIdx(type) == {i \in DOMAIN rows : rows[i].type = type}

Table(type) == {rows[i] : i \in TableIdx(type)}

\* The factories a test can build from the defaults with the builder
\* methods: .name(..) on a country, .country(..) on a city and
\* .home_city(..) on a user, each given a factory or a persisted record
\* (lib.rs:112-149, 275-276, 304-305, 343-355).
CountryFactories == {CountryFactoryDefault}

CountryAssociations ==
    {AssocFactory(f) : f \in CountryFactories}
        \cup {AssocModel(m) : m \in Table("Country")}

CityFactories == {CityFactory("Copenhagen", a) : a \in CountryAssociations}

CityAssociations ==
    {AssocNone} \cup {AssocFactory(f) : f \in CityFactories}
        \cup {AssocModel(m) : m \in Table("City")}

UserFactories == {UserFactory("Bob", a) : a \in CityAssociations}

Factories == CountryFactories \cup CityFactories \cup UserFactories

\* Factory::id_for_model, lib.rs:453-456: "a generic wrapper around model.id"
id_for_model(model) == model.id

\* Resolution that inserts the record of an Existing association again.
insert_returning_id_reinsert(assoc) ==
    IF assoc.tag = "Model"
    THEN [kind |-> "insert",
          factory |-> [type |-> assoc.model.type, name |-> assoc.model.name,
                       assoc |-> AssocNone]]
    ELSE [kind |-> "insert", factory |-> assoc.factory]

\* Resolution that reuses a persisted parent instead of inserting one.
insert_returning_id_dedup(assoc) ==
    IF assoc.tag = "Model"
    THEN [kind |-> "id", id |-> id_for_model(assoc.model)]
    ELSE IF TableIdx(assoc.factory.type) # {}
         THEN [kind |-> "id",
               id |-> id_for_model(rows[CHOOSE i \in TableIdx(assoc.factory.type) :
                          \A j \in TableIdx(assoc.factory.type) : i <= j])]
         ELSE [kind |-> "insert", factory |-> assoc.factory]

\* Resolution that hands out an identifier without inserting the factory.
insert_returning_id_skip(assoc) ==
    IF assoc.tag = "Model"
    THEN [kind |-> "id", id |-> id_for_model(assoc.model)]
    ELSE [kind |-> "id", id |-> Cardinality(TableIdx(assoc.factory.type)) + 1]

\* Association::insert_returning_id, lib.rs:416-424, up to the nested call:
\* Model(model) yields the identifier at once; Factory(factory) asks for
\* factory.clone().insert(con), whose result is read by ReturnId below.
insert_returning_id(assoc) ==
    IF assoc.tag = "Model"
    THEN [kind |-> "id", id |-> id_for_model(assoc.model)]
    ELSE [kind |-> "insert", factory |-> assoc.factory]

\* Resolution that remembers the model it obtained in the association.
SelfAfter_cached(assoc, model) == AssocModel(model)

\* The association once insert_returning_id(&self, ..) has returned the
\* identifier of `model`: self is only borrowed and what insert consumed
\* was a clone of the factory (lib.rs:416-422), so it is the value it was.
SelfAfter(assoc, model) == assoc

\* lib.rs:421: F::id_for_model(&model).clone() of the freshly inserted model
ReturnId(model) == id_for_model(model)

\* A nested failure swallowed by the resolver: only the failing frame goes.
PropagatePanic_caught(stk) ==
    IF Len(stk) > 1
    THEN [SubSeq(stk, 1, Len(stk) - 1) EXCEPT
              ![Len(stk) - 1] = [@ EXCEPT !.phase = "insert", !.fk = NoId]]
    ELSE <<>>

\* A panic of the insert primitive unwinds every frame of the call: neither
\* insert_returning_id (lib.rs:419-422) nor insert (lib.rs:447-451) catches.
PropagatePanic(stk) == <<>>

\* The activation of factory.insert(con): a factory whose association field
\* is None has nothing to resolve and its foreign key stays NULL.
Frame(factory) ==
    [factory |-> factory,
     phase |-> IF factory.assoc.tag = "None" THEN "insert" ELSE "resolve",
     fk |-> NoId]

Top(stk) == stk[Len(stk)]

SetTop(stk, frame) == [stk EXCEPT ![Len(stk)] = frame]

Pop(stk) == SubSeq(stk, 1, Len(stk) - 1)

Running == {c \in Callers : stack[c] # <<>>}

\* The identifier the datastore gives the next row of a table (a serial
\* primary key, lib.rs:16-29).
NextId(type) == Cardinality(TableIdx(type)) + 1

\* The row assembled from a factory whose associations are resolved.
AssembleRow(frame) ==
    [type |-> frame.factory.type, id |-> NextId(frame.factory.type),
     name |-> frame.factory.name, fk |-> frame.fk]

Finished(c, factory, outcome, record, ins, fd) ==
    [caller |-> c, factory |-> factory, outcome |-> outcome, record |-> record,
     inserted |-> ins, startLen |-> startLen[c], failDepth |-> fd,
     called |-> called[c]]

\* Nothing constructed.
NoBuilt == [factory |-> NoFactory, via |-> "none"]

\* The parent factories and the persisted parent records a factory of type
\* `type` can be associated to.
ParentFactories(type) == IF type = "City" THEN CountryFactories ELSE CityFactories

ParentModels(type) == IF type = "City" THEN Table("Country") ELSE Table("City")

\* A default that looks a persisted parent up instead of wrapping the
\* parent factory's default.
AssociationDefault_existing(type) ==
    IF ParentModels(type) # {}
    THEN AssocModel(CHOOSE m \in ParentModels(type) : TRUE)
    ELSE IF type = "City" THEN AssociationDefaultCountry ELSE AssociationDefaultCity

\* Association::default() for the association field of a factory of type
\* `type`: Association::Factory(Factory::default()), lib.rs:393-397.
AssociationDefault(type) ==
    IF type = "City" THEN AssociationDefaultCountry ELSE AssociationDefaultCity

\* The three ways an association is constructed, lib.rs:393-409: default(),
\* new_model(&model) and new_factory(factory) (the latter two are what the
\* builder method of an association field calls).
AssociationNew(type, via, arg) ==
    CASE via = "default" -> AssociationDefault(type)
      [] via = "new_model" -> AssocModel(arg)
      [] via = "new_factory" -> AssocFactory(arg)

\* The arguments a test can give each constructor.
ConstructorArgs(type, via) ==
    CASE via = "default" -> {NoFactory}
      [] via = "new_model" -> ParentModels(type)
      [] via = "new_factory" -> ParentFactories(type)

\* A test constructs a child factory, its association field built by one of
\* the three constructors (lib.rs:59-70, 135-137, 275-276, 304-305).
Construct(c, type, via, arg) ==
    /\ stack[c] = <<>>
    /\ built[c] = NoBuilt
    /\ \A d \in Callers : d < c => stack[d] # <<>>
    /\ Len(history) + Cardinality(Running) < MaxCalls
    /\ built' = [built EXCEPT ![c] =
           [factory |-> IF type = "City"
                        THEN CityFactory("Copenhagen", AssociationNew(type, via, arg))
                        ELSE UserFactory("Bob", AssociationNew(type, via, arg)),
            via |-> via]]
    /\ UNCHANGED <<rows, stack, inserted, startLen, failDepth, called, history>>
    /\ UNCHANGED seqVars

\* A test calls factory.insert(&con), lib.rs:102, 118, 133, 138, 143.
CallInsert(c, factory) ==
    /\ stack[c] = <<>>
    /\ \A d \in Callers : d < c => stack[d] # <<>>
    /\ Len(history) + Cardinality(Running) < MaxCalls
    /\ stack' = [stack EXCEPT ![c] = <<Frame(factory)>>]
    /\ inserted' = [inserted EXCEPT ![c] = <<>>]
    /\ startLen' = [startLen EXCEPT ![c] = Len(rows)]
    /\ failDepth' = [failDepth EXCEPT ![c] = 0]
    /\ called' = [called EXCEPT ![c] = factory]
    /\ built' = [built EXCEPT ![c] = NoBuilt]
    /\ UNCHANGED <<rows, history>>
    /\ UNCHANGED seqVars

\* Factory::insert resolving its association with insert_returning_id, which
\* either returns an identifier or calls insert on the cloned parent factory.
ResolveAssociation(c) ==
    /\ stack[c] # <<>>
    /\ Top(stack[c]).phase = "resolve"
    /\ LET r == insert_returning_id(Top(stack[c]).factory.assoc) IN
          \/ /\ r.kind = "id"
             /\ stack' = [stack EXCEPT ![c] =
                    SetTop(@, [Top(@) EXCEPT
                        !.phase = "insert", !.fk = r.id,
                        !.factory.assoc = SelfAfter(@, @.model)])]
          \/ /\ r.kind = "insert"
             /\ stack' = [stack EXCEPT ![c] = Append(@, Frame(r.factory))]
    /\ UNCHANGED <<rows, inserted, startLen, failDepth, called, built, history>>
    /\ UNCHANGED seqVars

\* The insert primitive succeeds: the row is persisted and the model is
\* returned, to insert_returning_id (lib.rs:420-421) or to the test.
InsertRow(c) ==
    /\ stack[c] # <<>>
    /\ Top(stack[c]).phase = "insert"
    /\ LET model == AssembleRow(Top(stack[c]))
           ins == Append(inserted[c], Len(rows) + 1)
       IN /\ rows' = Append(rows, model)
          /\ inserted' = [inserted EXCEPT ![c] = ins]
          /\ \/ /\ Len(stack[c]) > 1
                /\ stack' = [stack EXCEPT ![c] =
                       SetTop(Pop(@), [Top(Pop(@)) EXCEPT
                           !.phase = "insert", !.fk = ReturnId(model),
                           !.factory.assoc = SelfAfter(@, model)])]
                /\ UNCHANGED history
             \/ /\ Len(stack[c]) = 1
                /\ stack' = [stack EXCEPT ![c] = <<>>]
                /\ history' = Append(history,
                       Finished(c, Top(stack[c]).factory, "ok", model, ins,
                                failDepth[c]))
    /\ UNCHANGED <<startLen, failDepth, called, built>>
    /\ UNCHANGED seqVars

\* Number of insert calls in which the primitive has failed.
Failures ==
    Cardinality({i \in DOMAIN history : history[i].failDepth > 0})
        + Cardinality({c \in Callers : stack[c] # <<>> /\ failDepth[c] > 0})

\* The insert primitive fails: insert panics (lib.rs:449-450).
InsertFail(c) ==
    /\ stack[c] # <<>>
    /\ Top(stack[c]).phase = "insert"
    /\ failDepth[c] = 0
    /\ Failures < MaxFailures
    /\ failDepth' = [failDepth EXCEPT ![c] = Len(stack[c])]
    /\ LET left == PropagatePanic(stack[c]) IN
          /\ stack' = [stack EXCEPT ![c] = left]
          /\ history' =
                 IF left = <<>>
                 THEN Append(history,
                          Finished(c, stack[c][1].factory, "panicked", NoRecord,
                                   inserted[c], Len(stack[c])))
                 ELSE history
    /\ UNCHANGED <<rows, inserted, startLen, called, built>>
    /\ UNCHANGED seqVars

SeqInit ==
    /\ SEQUENCE_COUNTER = CounterInit
    /\ pc = [t \in Threads |-> "idle"]
    /\ count = [t \in Threads |-> 0]
    /\ own = [t \in Threads |-> 0]
    /\ passed = <<>>
    /\ overlapped = FALSE

\* The datastore a test starts from: empty, or holding the country that
\* the test set up first (lib.rs:131-133).
Fixtures ==
    {<<>>, <<[type |-> "Country", id |-> 1, name |-> "Netherlands", fk |-> NoId]>>}

DbInit ==
    /\ rows \in Fixtures
    /\ stack = [c \in Callers |-> <<>>]
    /\ inserted = [c \in Callers |-> <<>>]
    /\ startLen = [c \in Callers |-> 0]
    /\ failDepth = [c \in Callers |-> 0]
    /\ called = [c \in Callers |-> NoFactory]
    /\ built = [c \in Callers |-> NoBuilt]
    /\ history = <<>>

Init == SeqInit /\ DbInit

NextSequence ==
    \E t \in Threads : FetchAdd(t) \/ Load(t) \/ ApplyF(t)

\* sequence(f) touches no datastore: it is run from the empty one.
InitSequence == Init /\ rows = <<>>

SpecSequence == InitSequence /\ [][NextSequence]_vars

NextInsert ==
    \E c \in Callers :
        \/ \E f \in Factories : CallInsert(c, f)
        \/ ResolveAssociation(c)
        \/ InsertRow(c)
        \/ InsertFail(c)

SpecInsert == Init /\ [][NextInsert]_vars

\* The same calls with the construction of the factory as a step of its
\* own: a test constructs a child factory and later inserts it.  The insert
\* primitive is taken to succeed here; its failures are those of SpecInsert.
NextBuild ==
    \E c \in Callers :
        \/ \E type \in {"City", "User"}, via \in {"default", "new_model", "new_factory"} :
              \E arg \in ConstructorArgs(type, via) : Construct(c, type, via, arg)
        \/ built[c] # NoBuilt /\ CallInsert(c, built[c].factory)
        \/ ResolveAssociation(c)
        \/ InsertRow(c)

SpecBuild == Init /\ [][NextBuild]_vars

(***************************************************************************)
(* Properties of the sequence generator (checked under SpecSequence).      *)
(***************************************************************************)

\* C1: over all calls of sequence, whatever the interleaving of the threads'
\* increments and reads, the integers passed to f are pairwise distinct.
SequenceValuesDistinct ==
    \A i, j \in DOMAIN passed : i # j => passed[i].n # passed[j].n

\* C8: while no two calls of sequence have overlapped, the counter starts at
\* 0 and the k-th call passes exactly k to f, so each call receives a number
\* strictly greater than the call before it.
SequentialCallsCount ==
    /\ SeqStarted = 0 => SEQUENCE_COUNTER = 0
    /\ ~overlapped =>
          /\ \A k \in DOMAIN passed : passed[k].n = k
          /\ \A k \in DOMAIN passed : k > 1 => passed[k].n > passed[k - 1].n

SequentialCallsCountWitness ==
    /\ ~overlapped
    /\ Len(passed) >= 3
    /\ \E k \in DOMAIN passed : k > 1 /\ passed[k].thread # passed[k - 1].thread

\* C9: in every reachable state the counter equals the number of calls that
\* have performed their increment (no update is lost), and no step makes
\* the counter smaller.
CounterCountsIncrements ==
    /\ [](SEQUENCE_COUNTER = SeqStarted)
    /\ [][SEQUENCE_COUNTER' >= SEQUENCE_COUNTER]_vars

CounterCountsIncrementsWitness ==
    /\ Cardinality({t \in Threads : pc[t] = "fetched"}) >= 2
    /\ Len(passed) >= 1
    /\ SEQUENCE_COUNTER >= 3

\* C13: under concurrent calls from several threads, the numbers received
\* by the successive calls of one same thread are strictly increasing.
PerThreadIncreasing ==
    \A i, j \in DOMAIN passed :
        (i < j /\ passed[i].thread = passed[j].thread) =>
            passed[i].n < passed[j].n

PerThreadIncreasingWitness ==
    /\ overlapped
    /\ \E i, j, k \in DOMAIN passed :
          /\ i < k /\ k < j
          /\ passed[i].thread = passed[j].thread
          /\ passed[k].thread # passed[i].thread
          /\ passed[k].n >= passed[j].n

\* C14: the number a call passes to f is at least the value its own
\* increment produced (old counter value + 1, so at least 1) and at most the
\* number of increments performed so far by all calls.
PassedWithinOwnAndTotal ==
    /\ \A t \in Threads :
          pc[t] = "loaded" =>
             /\ own[t] >= 1
             /\ own[t] <= count[t]
             /\ count[t] <= SeqStarted
    /\ \A k \in DOMAIN passed :
          /\ passed[k].own >= 1
          /\ passed[k].own <= passed[k].n
          /\ passed[k].n <= SeqStarted

PassedWithinOwnAndTotalWitness ==
    \E k \in DOMAIN passed :
        /\ passed[k].own < passed[k].n
        /\ passed[k].n = SeqStarted
        /\ \E j \in DOMAIN passed : passed[j].own = passed[j].n

(***************************************************************************)
(* Properties of association resolution (checked under SpecInsert).        *)
(***************************************************************************)

\* Number of factories a call has to insert: the factory itself and the
\* chain of Pending associations below it.
RECURSIVE PendingDepth(_)
PendingDepth(factory) ==
    IF factory.assoc.tag = "Factory"
    THEN 1 + PendingDepth(factory.assoc.factory)
    ELSE 1

\* The rows a finished call inserted, in the order it inserted them.
InsertedRows(h) == [k \in DOMAIN h.inserted |-> rows[h.inserted[k]]]

Existing(h) == h.factory.assoc.tag = "Model"

Pending(h) == h.factory.assoc.tag = "Factory"

\* Whether call g began before call h inserted its last row and inserted
\* its own last row after it: the two calls were interleaved.
Interleaved(h, g) ==
    /\ h.inserted # <<>>
    /\ g.inserted # <<>>
    /\ g.startLen < h.inserted[Len(h.inserted)]
    /\ h.inserted[Len(h.inserted)] < g.inserted[Len(g.inserted)]
    /\ h.startLen < g.inserted[Len(g.inserted)]

\* C2: children inserted with an Existing association to the same persisted
\* parent P insert no parent: each such call inserts exactly its own row,
\* P is still a row of the parent table, and the foreign keys of all of
\* them equal P's identifier.
SharedExistingInsertsNoParent ==
    \A i, j \in DOMAIN history :
        LET h == history[i]
            g == history[j]
            P == h.factory.assoc.model
        IN (/\ Existing(h) /\ h.outcome = "ok"
            /\ Existing(g) /\ g.outcome = "ok"
            /\ g.factory.assoc.model = P) =>
               /\ InsertedRows(h) = <<h.record>>
               /\ h.record.type = h.factory.type
               /\ \A k \in DOMAIN h.inserted : rows[h.inserted[k]].type # P.type
               /\ P \in Table(P.type)
               /\ h.record.fk = id_for_model(P)
               /\ h.record.fk = g.record.fk

SharedExistingInsertsNoParentWitness ==
    \E i, j \in DOMAIN history :
        /\ i # j
        /\ history[i].factory.type = "City"
        /\ history[j].factory.type = "City"
        /\ Existing(history[i]) /\ history[i].outcome = "ok"
        /\ Existing(history[j]) /\ history[j].outcome = "ok"
        /\ history[i].factory.assoc.model = history[j].factory.assoc.model
        /\ Interleaved(history[i], history[j])
        /\ Cardinality(TableIdx("City")) = 2
        /\ Cardinality(TableIdx("Country")) = 1

\* The parent row a finished call with a Pending association inserted for
\* its own factory: the row inserted just before the factory's own row.
ParentIdx(h) == h.inserted[Len(h.inserted) - 1]

\* C3: two children that each own a Pending association get two distinct
\* parent rows with two distinct identifiers, each child's foreign key
\* being the identifier of the parent row inserted for it.
DefaultAssociationsIndependent ==
    \A i, j \in DOMAIN history :
        LET h == history[i]
            g == history[j]
        IN (/\ i # j
            /\ Pending(h) /\ h.outcome = "ok"
            /\ Pending(g) /\ g.outcome = "ok"
            /\ h.factory.type = g.factory.type) =>
               /\ Len(h.inserted) >= 2 /\ Len(g.inserted) >= 2
               /\ ParentIdx(h) # ParentIdx(g)
               /\ rows[ParentIdx(h)].type = h.factory.assoc.factory.type
               /\ rows[ParentIdx(g)].type = g.factory.assoc.factory.type
               /\ rows[ParentIdx(h)].id # rows[ParentIdx(g)].id
               /\ h.record.fk = rows[ParentIdx(h)].id
               /\ g.record.fk = rows[ParentIdx(g)].id

DefaultAssociationsIndependentWitness ==
    \E i, j \in DOMAIN history :
        /\ i # j
        /\ history[i].factory = CityFactoryDefault
        /\ history[j].factory = CityFactoryDefault
        /\ history[i].outcome = "ok"
        /\ history[j].outcome = "ok"
        /\ Interleaved(history[i], history[j])

\* The three-level chain: a user whose home city is a Pending city factory
\* whose country is a Pending country factory.
ChainFactory == UserFactory("Bob", AssociationDefaultCity)

ChainOrder == <<"Country", "City", "User">>

\* C4: one insert of the three-level chain inserts grandparent, child and
\* grandchild in that order (at every moment the rows inserted so far are a
\* prefix of that order), one row per level, the child row referencing the
\* grandparent's identifier and the grandchild row the child's.
DepthFirstChain ==
    /\ \A c \in Callers :
          (stack[c] # <<>> /\ stack[c][1].factory = ChainFactory) =>
             /\ Len(inserted[c]) <= 3
             /\ \A k \in DOMAIN inserted[c] :
                   rows[inserted[c][k]].type = ChainOrder[k]
             /\ \A k \in DOMAIN stack[c] :
                   stack[c][k].phase = "insert" =>
                      /\ Len(inserted[c]) = 3 - k
                      /\ k < 3 => stack[c][k].fk = rows[inserted[c][3 - k]].id
    /\ \A i \in DOMAIN history :
          LET h == history[i]
              r == InsertedRows(h)
          IN (h.factory = ChainFactory /\ h.outcome = "ok") =>
                /\ Len(r) = 3
                /\ \A k \in 1..3 : r[k].type = ChainOrder[k]
                /\ h.inserted[1] < h.inserted[2]
                /\ h.inserted[2] < h.inserted[3]
                /\ r[1].fk = NoId
                /\ r[2].fk = r[1].id
                /\ r[3].fk = r[2].id
                /\ r[3] = h.record

DepthFirstChainWitness ==
    \E i \in DOMAIN history :
        /\ history[i].factory = ChainFactory
        /\ history[i].outcome = "ok"
        /\ history[i].startLen > 0

\* A caller is about to resolve an Existing association.
ResolvingExisting(c) ==
    /\ stack[c] # <<>>
    /\ Top(stack[c]).phase = "resolve"
    /\ Top(stack[c]).factory.assoc.tag = "Model"

\* C5: the step that resolves an Existing association writes nothing (the
\* rows of every table, the referenced record included, are as before),
\* cannot fail, and yields id_for_model of the referenced record.
ExistingResolutionReadOnly ==
    [][\A c \in Callers :
          (ResolvingExisting(c) /\ stack'[c] # stack[c]) =>
             /\ rows' = rows
             /\ history' = history
             /\ failDepth' = failDepth
             /\ inserted' = inserted
             /\ Len(stack'[c]) = Len(stack[c])
             /\ Top(stack'[c]).factory = Top(stack[c]).factory
             /\ Top(stack'[c]).phase = "insert"
             /\ Top(stack'[c]).fk =
                    id_for_model(Top(stack[c]).factory.assoc.model)]_vars

ExistingResolutionReadOnlyWitness ==
    \E c \in Callers :
        /\ stack[c] # <<>>
        /\ Top(stack[c]).phase = "insert"
        /\ Top(stack[c]).factory.assoc.tag = "Model"
        /\ Top(stack[c]).fk = Top(stack[c]).factory.assoc.model.id
        /\ Top(stack[c]).fk # NoId
        /\ Len(rows) = startLen[c]

\* C6: when the insert primitive fails for a nested parent factory, the
\* failure is caught nowhere (no frame of the call goes on), the top-level
\* call fails and returns no record, and the call has inserted no row for
\* the child.
NestedFailurePropagates ==
    /\ \A c \in Callers : failDepth[c] > 0 => stack[c] = <<>>
    /\ \A i \in DOMAIN history :
          LET h == history[i] IN
             h.failDepth > 1 =>
                /\ h.outcome = "panicked"
                /\ h.record = NoRecord
                /\ \A k \in DOMAIN h.inserted :
                      rows[h.inserted[k]].type # h.factory.type

NestedFailurePropagatesWitness ==
    \E i \in DOMAIN history :
        /\ history[i].failDepth > 1
        /\ history[i].outcome = "panicked"
        /\ Pending(history[i])

\* C7: after any top-level insert call, either all rows of the call (the
\* factory's own and those of the parents it had to insert) are persisted
\* and the record is returned, or the call failed, returned no record and
\* persisted none of its rows.
NoPartialSuccess ==
    \A i \in DOMAIN history :
        LET h == history[i] IN
           \/ /\ h.outcome = "ok"
              /\ h.record # NoRecord
              /\ Len(h.inserted) = PendingDepth(h.factory)
           \/ /\ h.outcome = "panicked"
              /\ h.record = NoRecord
              /\ Len(h.inserted) \in {0, PendingDepth(h.factory)}

\* C7, amended: a call either persists all its rows and returns the record,
\* or fails without returning a record; a failed call has persisted neither
\* the row of the factory whose insert failed nor of any factory enclosing
\* it, while the parent rows it inserted before the failure remain.
InsertAllOrFailKeepingParents ==
    \A i \in DOMAIN history :
        LET h == history[i] IN
           \/ /\ h.outcome = "ok"
              /\ h.failDepth = 0
              /\ h.record # NoRecord
              /\ Len(h.inserted) = PendingDepth(h.factory)
              /\ rows[h.inserted[Len(h.inserted)]] = h.record
           \/ /\ h.outcome = "panicked"
              /\ h.failDepth > 0
              /\ h.record = NoRecord
              /\ Len(h.inserted) = PendingDepth(h.factory) - h.failDepth
              /\ \A k \in DOMAIN h.inserted :
                    /\ h.inserted[k] \in DOMAIN rows
                    /\ h.inserted[k] > h.startLen

InsertAllOrFailKeepingParentsWitness ==
    \E i \in DOMAIN history :
        /\ history[i].outcome = "panicked"
        /\ history[i].factory = CityFactoryDefault
        /\ Len(history[i].inserted) = 1
        /\ rows[history[i].inserted[1]].type = "Country"

\* C10: a successful insert of a factory whose Pending association holds a
\* factory with no Pending association of its own inserts exactly one
\* parent row and then its own row; the parent row did not exist when the
\* call began, and the child's foreign key is the identifier of that row.
PendingInsertsFreshParent ==
    \A i \in DOMAIN history :
        LET h == history[i] IN
           (/\ Pending(h)
            /\ h.factory.assoc.factory.assoc.tag # "Factory"
            /\ h.outcome = "ok") =>
               /\ Len(h.inserted) = 2
               /\ h.inserted[1] > h.startLen
               /\ h.inserted[1] < h.inserted[2]
               /\ rows[h.inserted[1]].type = h.factory.assoc.factory.type
               /\ rows[h.inserted[1]].name = h.factory.assoc.factory.name
               /\ rows[h.inserted[2]] = h.record
               /\ h.record.type = h.factory.type
               /\ h.record.fk = id_for_model(rows[h.inserted[1]])
               /\ \A k \in TableIdx(h.factory.assoc.factory.type) :
                     k <= h.startLen => rows[k].id # h.record.fk

PendingInsertsFreshParentWitness ==
    \E i \in DOMAIN history :
        /\ history[i].factory = CityFactoryDefault
        /\ history[i].outcome = "ok"
        /\ \E k \in TableIdx("Country") : k <= history[i].startLen
        /\ Cardinality(TableIdx("City")) = 1

\* C11: resolution never changes the association it resolves.  While a
\* call runs, the factory it was given and every nested factory still hold
\* the association they held before (each nested frame runs a clone equal
\* to the factory its parent's association holds), and when the call ends,
\* with a record or with a failed nested insert, the factory is the value
\* the call was given.
ResolutionKeepsAssociation ==
    /\ \A c \in Callers :
          stack[c] # <<>> =>
             /\ stack[c][1].factory = called[c]
             /\ \A k \in 1..(Len(stack[c]) - 1) :
                   stack[c][k].factory.assoc = AssocFactory(stack[c][k + 1].factory)
    /\ \A i \in DOMAIN history : history[i].factory = history[i].called

ResolutionKeepsAssociationWitness ==
    /\ \E c \in Callers :
          /\ stack[c] # <<>>
          /\ Top(stack[c]).phase = "insert"
          /\ Top(stack[c]).factory.assoc.tag = "Factory"
          /\ Top(stack[c]).fk # NoId
    /\ \E i \in DOMAIN history :
          /\ history[i].outcome = "panicked"
          /\ history[i].failDepth > 1
          /\ Pending(history[i])

\* C12: resolving a Pending association is never cached or deduplicated.
\* Every call given a Pending association attempts the parent insert (the
\* parent row is inserted, or the nested insert is where the call failed)
\* and leaves the association Pending; calls given the same
\* Association::Factory value that succeed have pairwise distinct parent
\* rows with distinct identifiers, each inserted by the call itself and
\* each the row whose identifier the call used.
PendingNeverDeduplicated ==
    /\ \A c \in Callers :
          (stack[c] # <<>> /\ called[c].assoc.tag = "Factory") =>
              stack[c][1].factory.assoc.tag = "Factory"
    /\ \A i \in DOMAIN history :
          LET h == history[i] IN
             h.called.assoc.tag = "Factory" =>
                /\ h.factory.assoc.tag = "Factory"
                /\ h.outcome = "ok" =>
                      /\ Len(h.inserted) = PendingDepth(h.called)
                      /\ ParentIdx(h) > h.startLen
                      /\ h.record.fk = rows[ParentIdx(h)].id
                /\ h.outcome = "panicked" =>
                      \/ h.failDepth >= 2
                      \/ /\ h.failDepth = 1
                         /\ Len(h.inserted) = PendingDepth(h.called) - 1
    /\ \A i, j \in DOMAIN history :
          LET h == history[i]
              g == history[j]
          IN (/\ i # j
              /\ h.called.assoc.tag = "Factory"
              /\ g.called.assoc = h.called.assoc
              /\ h.outcome = "ok" /\ g.outcome = "ok") =>
                 /\ ParentIdx(h) # ParentIdx(g)
                 /\ rows[ParentIdx(h)].id # rows[ParentIdx(g)].id
                 /\ h.record.fk # g.record.fk

PendingNeverDeduplicatedWitness ==
    \E i, j \in DOMAIN history :
        /\ i < j
        /\ history[i].called = history[j].called
        /\ history[i].called.assoc = AssociationDefaultCountry
        /\ history[i].outcome = "ok" /\ history[j].outcome = "ok"
        /\ history[j].startLen >= history[i].inserted[2]
        /\ \E k \in TableIdx("Country") : k <= history[i].startLen

(***************************************************************************)
(* Properties of association construction (checked under SpecBuild).       *)
(***************************************************************************)

\* The variant each constructor must have produced.
ConstructedVariant(b) ==
    /\ b.via = "default" =>
          b.factory.assoc =
              AssocFactory(IF b.factory.type = "City"
                           THEN CountryFactoryDefault ELSE CityFactoryDefault)
    /\ b.via = "new_model" =>
          /\ b.factory.assoc.tag = "Model"
          /\ b.factory.assoc.model \in ParentModels(b.factory.type)
    /\ b.via = "new_factory" =>
          /\ b.factory.assoc.tag = "Factory"
          /\ b.factory.assoc.factory \in ParentFactories(b.factory.type)

\* C15: constructing an association never writes.  Association::default()
\* yields the Pending variant wrapping the parent factory's default,
\* new_model yields Existing and new_factory yields Pending; the step that
\* constructs leaves the datastore and every call as they were, and a row
\* is only ever inserted by a caller whose insert has been called.
ConstructionNeverWrites ==
    /\ [](\A c \in Callers :
             built[c] # NoBuilt =>
                 stack[c] = <<>> /\ ConstructedVariant(built[c]))
    /\ [][\A c \in Callers :
             (built'[c] # built[c] /\ built'[c] # NoBuilt) =>
                 /\ rows' = rows
                 /\ stack' = stack
                 /\ inserted' = inserted
                 /\ history' = history]_vars
    /\ [][rows' # rows =>
             \E c \in Callers :
                 /\ stack[c] # <<>>
                 /\ built[c] = NoBuilt
                 /\ inserted'[c] = Append(inserted[c], Len(rows'))]_vars

ConstructionNeverWritesWitness ==
    \E c, d \in Callers :
        /\ built[c].via = "default"
        /\ built[c].factory = CityFactoryDefault
        /\ TableIdx("Country") # {}
        /\ stack[d] # <<>>
        /\ inserted[d] # <<>>
        /\ \E i \in DOMAIN history : history[i].called.assoc.tag = "Model"

=============================================================================
